---- MODULE Spec2Model ----
(***************************************************************************)
(* Model of src/main.py: the Enphase gateway session establishment         *)
(* (get_secure_gateway_session), the telemetry extraction                  *)
(* (get_solar_stats), the watt formatter (format_watts) and the display    *)
(* loop of main().                                                         *)
(*                                                                         *)
(* Conventions                                                             *)
(*  - Python None is the value None below; "" is the empty string; both    *)
(*    are falsy (Truthy).                                                  *)
(*  - Watt values are fixed-point numbers in tenths of a watt: 9994 is     *)
(*    999.4 W.  Whole watts (the result of round) are plain integers.      *)
(*  - Python strings produced by the % operator are sequences of           *)
(*    one-character strings: "1.0 W" is <<"1", ".", "0", " ", "W">>.       *)
(*  - The cloud, gateway and display libraries are collaborators: each     *)
(*    call returns one of the values its interface allows, chosen          *)
(*    nondeterministically.  gateway.api_call may also raise; the calls    *)
(*    of session establishment are modelled as returning.                  *)
(*  - trace is a history variable: the collaborator calls and the write    *)
(*    of config.json in the order the program makes them, each with its    *)
(*    argument and its result.                                             *)
(***************************************************************************)
EXTENDS Integers, Sequences, FiniteSets, TLC

VARIABLES
    pc,            \* position of main()
    configFile,    \* config.json: whether it exists, and its content
    certFile,      \* whether gateway.cer exists
    validTokens,   \* the tokens Authentication.check_token_valid accepts
    credentials,   \* the config dict of main(), aliased as credentials
    loaded,        \* history: the dict as json.load returned it
    trace,         \* history: the collaborator calls and file writes, in order
    layer,         \* the texts on display layer 0, in drawing order
    reading,       \* production, consumption and avail of main()
    fetched,       \* history: the document the last api_call returned
    gateway,       \* the Gateway object get_secure_gateway_session returned
    polls,         \* number of loop iterations entered
    exitCode,      \* process exit status (NoExit while running)
    message,       \* what the process printed when it stopped
    watts,         \* format_watts in isolation: argument (tenths of a watt)
    text,          \* format_watts in isolation: result
    document,      \* get_solar_stats in isolation: the parsed production.json
    stats          \* get_solar_stats in isolation: result

vars == <<pc, configFile, certFile, validTokens, credentials, loaded, trace,
          layer, reading, fetched, gateway, polls, exitCode, message, watts,
          text, document, stats>>

\* ------------------------------------------------------------------ bounds

\* Largest number of loop iterations a run may enter.
MaxPolls == 2

\* Largest number of device entries in a document of the extraction check.
MaxDevices == 3

\* format_watts is checked for every argument from -FmtMax to FmtMax tenths
\* of a watt (and for the larger samples of FmtSamples).
FmtMax == 21000

\* ----------------------------------------------------------- Python values

None == "<None>"
NoExit == 0 - 1

\* Python truthiness of an optional string.
Truthy(v) == v # None /\ v # ""

Abs(n) == IF n < 0 THEN -n ELSE n

\* --------------------------------------------------------------- format_watts

\* round(x) for a float given in tenths: round half to even, result an int.
PyRound(w10) ==
    LET q == w10 \div 10
        r == w10 % 10
    IN  IF r < 5 THEN q
        ELSE IF r > 5 THEN q + 1
        ELSE IF q % 2 = 0 THEN q ELSE q + 1

DigitChar(d) == CASE d = 0 -> "0" [] d = 1 -> "1" [] d = 2 -> "2" [] d = 3 -> "3"
                  [] d = 4 -> "4" [] d = 5 -> "5" [] d = 6 -> "6" [] d = 7 -> "7"
                  [] d = 8 -> "8" [] d = 9 -> "9"

RECURSIVE NatChars(_)
NatChars(n) == IF n < 10 THEN <<DigitChar(n)>>
               ELSE NatChars(n \div 10) \o <<DigitChar(n % 10)>>

\* "%d" % n
FormatD(n) == IF n < 0 THEN <<"-">> \o NatChars(-n) ELSE NatChars(n)

RECURSIVE Pow2Mod1000(_)
Pow2Mod1000(k) == IF k = 0 THEN 1 ELSE (2 * Pow2Mod1000(k - 1)) % 1000

\* The binary exponent of a / 1000.0 for a >= 1000: the e with
\* 2^e <= a / 1000 < 2^(e+1).
RECURSIVE Exponent(_)
Exponent(a) == IF a < 2000 THEN 0 ELSE 1 + Exponent(a \div 2)

\* The double a / 1000.0 is the 53-bit m * 2^-k nearest to a / 1000, with
\* k = 52 - Exponent(a).  The remainder of a * 2^k by 1000 tells on which
\* side of a / 1000 the double lies: 0 exact, below 500 under, above over.
DoubleSide(a) ==
    LET r == ((a % 1000) * Pow2Mod1000(52 - Exponent(a))) % 1000
    IN  IF r = 0 THEN 0 ELSE IF r < 500 THEN -1 ELSE 1

\* The number of tenths "%.1f" prints for the double a / 1000.0, a >= 1000:
\* the one-decimal value nearest to the double, ties (the double is exactly
\* x.x5) to even.
Tenths(a) ==
    LET t == a \div 100
        r == a % 100
    IN  IF r < 50 THEN t
        ELSE IF r > 50 THEN t + 1
        ELSE CASE DoubleSide(a) = -1 -> t
               [] DoubleSide(a) = 1  -> t + 1
               [] OTHER -> IF t % 2 = 0 THEN t ELSE t + 1

\* "%.1f" % (n / 1000.0) for an int n with |n| >= 1000
FormatF1(n) ==
    LET t == Tenths(Abs(n))
    IN  (IF n < 0 THEN <<"-">> ELSE <<>>)
        \o NatChars(t \div 10) \o <<".">> \o <<DigitChar(t % 10)>>

\* The branch taken on the raw argument, before rounding.
ShortFormUnrounded(w10) == Abs(w10) < 10000

\* The branch of format_watts, taken on the rounded value.
ShortForm(w10) == Abs(PyRound(w10)) < 1000

format_watts(w10) ==
    IF ShortForm(w10)
    THEN FormatD(PyRound(w10)) \o <<" ", "W">>
    ELSE FormatF1(PyRound(w10)) \o <<" ", "W">>

\* ------------------------------------------------------------ get_solar_stats

\* for device in production_statistics['production']: if ...: ...; break
IsInverters(device) == device.type = "inverters"

RECURSIVE ProductionFrom(_, _)
ProductionFrom(devices, i) ==
    IF i > Len(devices) THEN 0
    ELSE IF IsInverters(devices[i]) THEN devices[i].wNow
    ELSE ProductionFrom(devices, i + 1)

\* The same loop without its break: the last match wins.
RECURSIVE ProductionNoBreak(_, _, _)
ProductionNoBreak(devices, i, found) ==
    IF i > Len(devices) THEN found
    ELSE ProductionNoBreak(devices, i + 1,
                           IF IsInverters(devices[i]) THEN devices[i].wNow ELSE found)

ProductionLastMatch(devices) == ProductionNoBreak(devices, 1, 0)

ProductionOf(devices) == ProductionFrom(devices, 1)

\* The condition with "or" between the type test and the measurementType test.
IsConsumptionMeterEither(device) ==
    \/ device.type = "eim"
    \/ device.measurementType = "net-consumption"
    \/ device.measurementType = "total-consumption"

\* for device in production_statistics['consumption']: if ... and (... or ...)
IsConsumptionMeter(device) ==
    /\ device.type = "eim"
    /\ \/ device.measurementType = "net-consumption"
       \/ device.measurementType = "total-consumption"

RECURSIVE ConsumptionFrom(_, _)
ConsumptionFrom(devices, i) ==
    IF i > Len(devices) THEN 0
    ELSE IF IsConsumptionMeter(devices[i]) THEN devices[i].wNow
    ELSE ConsumptionFrom(devices, i + 1)

ConsumptionOf(devices) == ConsumptionFrom(devices, 1)

\* The pair get_solar_stats returns for the parsed document doc.
get_solar_stats(doc) ==
    [production |-> ProductionOf(doc.production),
     consumption |-> ConsumptionOf(doc.consumption)]

\* ------------------------------------------------------------- config.json

\* JSON text of an optional string, and back (json.dump / json.load).
ToJson(v) == IF v = None THEN [kind |-> "null", value |-> ""]
             ELSE [kind |-> "string", value |-> v]

FromJson(j) == IF j.kind = "null" THEN None ELSE j.value

\* json.dump(credentials, json_file): the whole dict, key by key.
json_dump(dict) == [k \in DOMAIN dict |-> ToJson(dict[k])]

json_load(file) == [k \in DOMAIN file |-> FromJson(file[k])]

\* ---------------------------------------------------------------- history

Event(op, arg, res) == [op |-> op, arg |-> arg, res |-> res]

PyBool(b) == IF b THEN "True" ELSE "False"

Log(e) == trace' = Append(trace, e)

\* ------------------------------------------------- what the process prints

MsgNone == ""
MsgNoConfig == "No config.json file found."
MsgNoHub == "Unable to connect to hub"
MsgNoDisplay == "No Yocto-MaxiDisplay connected"
MsgAuthError == "ValueError: unable to obtain a token or to login"
MsgFetchError == "uncaught exception of api_call"

\* sys.exit(code) after print(msg); an uncaught exception ends the
\* interpreter with its traceback and status 1.
Exit(code, msg) == /\ pc' = "exited"
                   /\ exitCode' = code
                   /\ message' = msg

Raise(msg) == Exit(1, msg)

mainVars == <<pc, configFile, certFile, validTokens, credentials, loaded,
              trace, layer, reading, fetched, gateway, polls, exitCode, message>>
isolatedVars == <<watts, text, document, stats>>

\* ------------------------------------------------------------------ main()

ConfigKeys == {"gateway_host", "gateway_serial_number", "enphase_username",
               "enphase_password", "gateway_token", "yoctopuce_url"}

\* The values of the variables of main() before they are assigned.
Unset == "<unset>"
NoDict == [k \in ConfigKeys |-> Unset]
NoGateway == [host |-> Unset, token |-> Unset]
NoReading == [production |-> 0, consumption |-> 0, avail |-> 0]

\* config.json when it does not exist.
NoFile == [exists |-> FALSE, content |-> [k \in ConfigKeys |-> ToJson(None)]]

File(content) == [exists |-> TRUE, content |-> content]

\* if not os.path.exists('config.json'): print(...); sys.exit(1)
\* config = json.load(json_file)
LoadConfig ==
    /\ pc = "main"
    /\ IF ~configFile.exists
       THEN /\ Exit(1, MsgNoConfig)
            /\ UNCHANGED <<credentials, loaded>>
       ELSE /\ credentials' = json_load(configFile.content)
            /\ loaded' = json_load(configFile.content)
            /\ pc' = "RegisterHub"
            /\ UNCHANGED <<exitCode, message>>
    /\ UNCHANGED isolatedVars
    /\ UNCHANGED <<configFile, certFile, validTokens, trace, layer, reading, fetched,
                   gateway, polls>>

\* res = YAPI.RegisterHub(config['yoctopuce_url'], errmsg); if res < 0: exit
RegisterHub ==
    /\ pc = "RegisterHub"
    /\ \E res \in {-1, 0} :
          /\ Log(Event("RegisterHub", credentials.yoctopuce_url,
                       IF res < 0 THEN "error" ELSE "success"))
          /\ IF res < 0
             THEN Exit(1, MsgNoHub)
             ELSE /\ pc' = "FirstDisplay"
                  /\ UNCHANGED <<exitCode, message>>
    /\ UNCHANGED isolatedVars
    /\ UNCHANGED <<configFile, certFile, validTokens, credentials, loaded,
                   layer, reading, fetched, gateway, polls>>

\* The same step printing its message without calling sys.exit.
FirstDisplayNoExit ==
    /\ pc = "FirstDisplay"
    /\ \E found \in BOOLEAN :
          /\ Log(Event("FirstDisplay", "", IF found THEN "display" ELSE "None"))
          /\ pc' = "resetAll"
          /\ message' = IF found THEN message ELSE MsgNoDisplay
          /\ UNCHANGED exitCode
    /\ UNCHANGED isolatedVars
    /\ UNCHANGED <<configFile, certFile, validTokens, credentials, loaded,
                   layer, reading, fetched, gateway, polls>>

\* disp = YDisplay.FirstDisplay(); if disp is None: print(...); sys.exit(1)
FirstDisplay ==
    /\ pc = "FirstDisplay"
    /\ \E found \in BOOLEAN :
          /\ Log(Event("FirstDisplay", "", IF found THEN "display" ELSE "None"))
          /\ IF found
             THEN /\ pc' = "resetAll"
                  /\ UNCHANGED <<exitCode, message>>
             ELSE Exit(1, MsgNoDisplay)
    /\ UNCHANGED isolatedVars
    /\ UNCHANGED <<configFile, certFile, validTokens, credentials, loaded,
                   layer, reading, fetched, gateway, polls>>

\* disp.resetAll(); ...; l0 = disp.get_displayLayer(0); l0.clear()
ResetDisplay ==
    /\ pc = "resetAll"
    /\ trace' = trace \o <<Event("resetAll", "", ""), Event("clear", "", "")>>
    /\ layer' = <<>>
    /\ pc' = "check_token"
    /\ UNCHANGED isolatedVars
    /\ UNCHANGED <<configFile, certFile, validTokens, credentials, loaded,
                   reading, fetched, gateway, polls, exitCode, message>>

\* ------------------------------------------------ get_secure_gateway_session

\* The first statement with the invalid token kept instead of cleared.
KeepToken(token, accepted) == token

\* if not (credentials.get('gateway_token') and check_token_valid(...)):
\*     credentials['gateway_token'] = None
TokenAfterCheck(token, accepted) ==
    IF Truthy(token) /\ accepted THEN token ELSE None

\* A token is requested whatever the record holds.
AlwaysNeedsToken(dict) == TRUE

\* if not credentials.get('gateway_token'):
NeedsToken(dict) == ~Truthy(dict.gateway_token)

\* The test with the password left out.
HasUsername(dict) == Truthy(dict.enphase_username)

\* if credentials.get('enphase_username') and credentials.get('enphase_password'):
CanAuthenticate(dict) ==
    Truthy(dict.enphase_username) /\ Truthy(dict.enphase_password)

\* The test "is not None": an empty serial number counts as configured.
SerialNotNone(dict) == dict.gateway_serial_number # None

\* if credentials.get('gateway_serial_number'):
Commissioned(dict) == Truthy(dict.gateway_serial_number)

\* Authentication.check_token_valid is called only for a truthy token (the
\* "and" short-circuits); it accepts the tokens of validTokens.
CheckToken ==
    /\ pc = "check_token"
    /\ LET token == credentials.gateway_token
           accepted == token \in validTokens
       IN  /\ trace' = IF Truthy(token)
                       THEN Append(trace, Event("check_token_valid", token,
                                                PyBool(accepted)))
                       ELSE trace
           /\ credentials' = [credentials EXCEPT
                                !.gateway_token = TokenAfterCheck(token, accepted)]
    /\ pc' = "have_token"
    /\ UNCHANGED isolatedVars
    /\ UNCHANGED <<configFile, certFile, validTokens, loaded, layer, reading, fetched,
                   gateway, polls, exitCode, message>>

\* The two tests that follow: token still missing? credentials to get one?
HaveToken ==
    /\ pc = "have_token"
    /\ IF ~NeedsToken(credentials)
       THEN /\ pc' = "trust"
            /\ UNCHANGED <<exitCode, message>>
       ELSE IF CanAuthenticate(credentials)
       THEN /\ pc' = "authenticate"
            /\ UNCHANGED <<exitCode, message>>
       ELSE Raise(MsgAuthError)
    /\ UNCHANGED isolatedVars
    /\ UNCHANGED <<configFile, certFile, validTokens, credentials, loaded,
                   trace, layer, reading, fetched, gateway, polls>>

\* The call with its result ignored: a token is requested even after a
\* refused authentication.
AuthenticateUnchecked ==
    /\ pc = "authenticate"
    /\ \E ok \in BOOLEAN :
          Log(Event("authenticate", credentials.enphase_username, PyBool(ok)))
    /\ pc' = "get_token"
    /\ UNCHANGED isolatedVars
    /\ UNCHANGED <<configFile, certFile, validTokens, credentials, loaded,
                   layer, reading, fetched, gateway, polls, exitCode, message>>

\* if not authentication.authenticate(username=..., password=...): raise
Authenticate ==
    /\ pc = "authenticate"
    /\ \E ok \in BOOLEAN :
          /\ Log(Event("authenticate", credentials.enphase_username, PyBool(ok)))
          /\ IF ok
             THEN /\ pc' = "get_token"
                  /\ UNCHANGED <<exitCode, message>>
             ELSE Raise(MsgAuthError)
    /\ UNCHANGED isolatedVars
    /\ UNCHANGED <<configFile, certFile, validTokens, credentials, loaded,
                   layer, reading, fetched, gateway, polls>>

\* What a token issuance call may return.
IssuedTokens == {"", "tokA", "tokB"}

\* credentials['gateway_token'] = authentication.get_token_for_..._gateway(...)
GetToken ==
    /\ pc = "get_token"
    /\ \E token \in IssuedTokens :
          /\ Log(IF Commissioned(credentials)
                 THEN Event("get_token_for_commissioned_gateway",
                            credentials.gateway_serial_number, token)
                 ELSE Event("get_token_for_uncommissioned_gateway", "", token))
          /\ credentials' = [credentials EXCEPT !.gateway_token = token]
    /\ pc' = "write_config"
    /\ UNCHANGED isolatedVars
    /\ UNCHANGED <<configFile, certFile, validTokens, loaded, layer, reading, fetched,
                   gateway, polls, exitCode, message>>

\* The write of the token alone: the other keys of the file are lost.
WriteConfigTokenOnly ==
    /\ pc = "write_config"
    /\ configFile' = File([k \in ConfigKeys |->
                             IF k = "gateway_token"
                             THEN ToJson(credentials.gateway_token)
                             ELSE ToJson(None)])
    /\ Log(Event("write", "config.json", ""))
    /\ pc' = "trust"
    /\ UNCHANGED isolatedVars
    /\ UNCHANGED <<certFile, validTokens, credentials, loaded, layer, reading, fetched,
                   gateway, polls, exitCode, message>>

\* with open('config.json', mode='w') as json_file: json.dump(credentials, ...)
WriteConfig ==
    /\ pc = "write_config"
    /\ configFile' = File(json_dump(credentials))
    /\ Log(Event("write", "config.json", ""))
    /\ pc' = "trust"
    /\ UNCHANGED isolatedVars
    /\ UNCHANGED <<certFile, validTokens, credentials, loaded, layer, reading, fetched,
                   gateway, polls, exitCode, message>>

\* The certificate fetched without the existence test.
TrustGatewayAlways ==
    /\ pc = "trust"
    /\ Log(Event("trust_gateway", credentials.gateway_host, "gateway.cer"))
    /\ certFile' = TRUE
    /\ pc' = "login"
    /\ UNCHANGED isolatedVars
    /\ UNCHANGED <<configFile, validTokens, credentials, loaded, layer, reading,
                   fetched, gateway, polls, exitCode, message>>

\* if not os.path.exists('gateway.cer'): Gateway.trust_gateway(host, "gateway.cer")
TrustGateway ==
    /\ pc = "trust"
    /\ IF ~certFile
       THEN /\ Log(Event("trust_gateway", credentials.gateway_host, "gateway.cer"))
            /\ certFile' = TRUE
       ELSE UNCHANGED <<trace, certFile>>
    /\ pc' = "login"
    /\ UNCHANGED isolatedVars
    /\ UNCHANGED <<configFile, validTokens, credentials, loaded, layer, reading, fetched,
                   gateway, polls, exitCode, message>>

\* A rejected login tried again instead of raising.
LoginRetries ==
    /\ pc = "login"
    /\ \E ok \in BOOLEAN :
          /\ Log(Event("login", credentials.gateway_token, PyBool(ok)))
          /\ IF ok
             THEN /\ gateway' = [host |-> credentials.gateway_host,
                                 token |-> credentials.gateway_token]
                  /\ pc' = "isOnline"
             ELSE /\ pc' = "login"
                  /\ UNCHANGED gateway
    /\ UNCHANGED isolatedVars
    /\ UNCHANGED <<configFile, certFile, validTokens, credentials, loaded,
                   layer, reading, fetched, polls, exitCode, message>>

\* A rejected login restoring the credential file as it was loaded.
LoginRollsBack ==
    /\ pc = "login"
    /\ \E ok \in BOOLEAN :
          /\ Log(Event("login", credentials.gateway_token, PyBool(ok)))
          /\ IF ok
             THEN /\ gateway' = [host |-> credentials.gateway_host,
                                 token |-> credentials.gateway_token]
                  /\ pc' = "isOnline"
                  /\ UNCHANGED <<exitCode, message, configFile>>
             ELSE /\ Raise(MsgAuthError)
                  /\ configFile' = File(json_dump(loaded))
                  /\ UNCHANGED gateway
    /\ UNCHANGED isolatedVars
    /\ UNCHANGED <<certFile, validTokens, credentials, loaded,
                   layer, reading, fetched, polls>>

\* The login made with the token read from config.json, whatever happened to
\* it since.
LoginWithLoadedToken ==
    /\ pc = "login"
    /\ \E ok \in BOOLEAN :
          /\ Log(Event("login", loaded.gateway_token, PyBool(ok)))
          /\ IF ok
             THEN /\ gateway' = [host |-> credentials.gateway_host,
                                 token |-> loaded.gateway_token]
                  /\ pc' = "isOnline"
                  /\ UNCHANGED <<exitCode, message>>
             ELSE /\ Raise(MsgAuthError)
                  /\ UNCHANGED gateway
    /\ UNCHANGED isolatedVars
    /\ UNCHANGED <<configFile, certFile, validTokens, credentials, loaded,
                   layer, reading, fetched, polls>>

\* gateway = Gateway(host); if not gateway.login(token): raise; return gateway
Login ==
    /\ pc = "login"
    /\ \E ok \in BOOLEAN :
          /\ Log(Event("login", credentials.gateway_token, PyBool(ok)))
          /\ IF ok
             THEN /\ gateway' = [host |-> credentials.gateway_host,
                                 token |-> credentials.gateway_token]
                  /\ pc' = "isOnline"
                  /\ UNCHANGED <<exitCode, message>>
             ELSE /\ Raise(MsgAuthError)
                  /\ UNCHANGED gateway
    /\ UNCHANGED isolatedVars
    /\ UNCHANGED <<configFile, certFile, validTokens, credentials, loaded,
                   layer, reading, fetched, polls>>

\* ------------------------------------------------------------ the poll loop

Device(type, measurementType, wNow) ==
    [type |-> type, measurementType |-> measurementType, wNow |-> wNow]

\* The documents gateway.api_call('/production.json') may return during a
\* run: a usual one, one without inverters whose balance rounds to -1000 W,
\* and one with two inverter entries and a consumption of 999.4 W.
PollDocuments ==
    { [production |-> <<Device("inverters", "production", 123450),
                        Device("eim", "production", 120000)>>,
       consumption |-> <<Device("eim", "total-consumption", 3004),
                         Device("eim", "net-consumption", -117000)>>],
      [production |-> <<Device("eim", "production", 5000)>>,
       consumption |-> <<Device("eim", "total-consumption", 9996)>>],
      [production |-> <<Device("inverters", "production", 9994),
                        Device("inverters", "production", 20000)>>,
       consumption |-> <<Device("eim", "production", 700),
                         Device("eim", "net-consumption", 0)>>] }

\* The loop goes on whatever isOnline returned.
LoopIgnoresOffline(online) == TRUE

\* while disp.isOnline():
LoopContinues(online) == online

IsOnline ==
    /\ pc = "isOnline"
    /\ \E online \in BOOLEAN :
          /\ LoopContinues(online) => polls < MaxPolls
          /\ Log(Event("isOnline", "", PyBool(online)))
          /\ IF LoopContinues(online)
             THEN /\ pc' = "api_call"
                  /\ polls' = polls + 1
                  /\ UNCHANGED <<exitCode, message>>
             ELSE /\ Exit(0, MsgNone)
                  /\ UNCHANGED polls
    /\ UNCHANGED isolatedVars
    /\ UNCHANGED <<configFile, certFile, validTokens, credentials, loaded,
                   layer, reading, fetched, gateway>>

\* The failure caught and the iteration abandoned: the loop sleeps and polls again.
FetchFailsAndRetries ==
    /\ pc = "api_call"
    /\ Log(Event("api_call", "/production.json", "error"))
    /\ pc' = "Sleep"
    /\ UNCHANGED isolatedVars
    /\ UNCHANGED <<configFile, certFile, validTokens, credentials, loaded,
                   layer, reading, fetched, gateway, polls, exitCode, message>>

\* gateway.api_call raises: neither get_solar_stats nor main catches it.
FetchFails ==
    /\ pc = "api_call"
    /\ Log(Event("api_call", "/production.json", "error"))
    /\ Raise(MsgFetchError)
    /\ UNCHANGED isolatedVars
    /\ UNCHANGED <<configFile, certFile, validTokens, credentials, loaded,
                   layer, reading, fetched, gateway, polls>>

\* The layer cleared before the request is made, not after it returned.
FetchAfterClear ==
    /\ pc = "api_call"
    /\ \E doc \in PollDocuments :
          LET got == get_solar_stats(doc)
          IN  /\ fetched' = doc
              /\ reading' = [production |-> got.production,
                             consumption |-> got.consumption,
                             avail |-> got.production - got.consumption]
    /\ layer' = <<>>
    /\ trace' = trace \o <<Event("clear", "", ""),
                            Event("api_call", "/production.json", "ok")>>
    /\ pc' = "drawLarge"
    /\ UNCHANGED isolatedVars
    /\ UNCHANGED <<configFile, certFile, validTokens, credentials, loaded,
                   gateway, polls, exitCode, message>>

\* The reading taken in the first iteration only and used in all later ones.
FetchKeepsFirstReading ==
    /\ pc = "api_call"
    /\ \E doc \in PollDocuments :
          LET got == get_solar_stats(doc)
          IN  /\ fetched' = doc
              /\ reading' = IF polls > 1 THEN reading
                            ELSE [production |-> got.production,
                                  consumption |-> got.consumption,
                                  avail |-> got.production - got.consumption]
    /\ Log(Event("api_call", "/production.json", "ok"))
    /\ pc' = "clear"
    /\ UNCHANGED isolatedVars
    /\ UNCHANGED <<configFile, certFile, validTokens, credentials, loaded,
                   layer, gateway, polls, exitCode, message>>

\* production, consumption = get_solar_stats(gateway)
\* avail = production - consumption
Fetch ==
    /\ pc = "api_call"
    /\ \E doc \in PollDocuments :
          LET got == get_solar_stats(doc)
          IN  /\ fetched' = doc
              /\ reading' = [production |-> got.production,
                             consumption |-> got.consumption,
                             avail |-> got.production - got.consumption]
    /\ Log(Event("api_call", "/production.json", "ok"))
    /\ pc' = "clear"
    /\ UNCHANGED isolatedVars
    /\ UNCHANGED <<configFile, certFile, validTokens, credentials, loaded,
                   layer, gateway, polls, exitCode, message>>

\* l0.clear()
Clear ==
    /\ pc = "clear"
    /\ layer' = <<>>
    /\ Log(Event("clear", "", ""))
    /\ pc' = "drawLarge"
    /\ UNCHANGED isolatedVars
    /\ UNCHANGED <<configFile, certFile, validTokens, credentials, loaded,
                   reading, fetched, gateway, polls, exitCode, message>>

\* l0.selectFont('Large.yfm'); l0.drawText(w / 2, h / 3, CENTER, format_watts(avail))
DrawLarge ==
    /\ pc = "drawLarge"
    /\ layer' = Append(layer, [font |-> "Large.yfm", y |-> "h/3",
                               text |-> format_watts(reading.avail)])
    /\ Log(Event("drawText", "Large.yfm", ""))
    /\ pc' = "drawMedium"
    /\ UNCHANGED isolatedVars
    /\ UNCHANGED <<configFile, certFile, validTokens, credentials, loaded,
                   reading, fetched, gateway, polls, exitCode, message>>

\* l0.selectFont('Medium.yfm')
\* l0.drawText(w / 2, h * 2 / 3, CENTER, "(" + format_watts(production) + ")")
DrawMedium ==
    /\ pc = "drawMedium"
    /\ layer' = Append(layer, [font |-> "Medium.yfm", y |-> "h*2/3",
                               text |-> <<"(">> \o format_watts(reading.production)
                                        \o <<")">>])
    /\ Log(Event("drawText", "Medium.yfm", ""))
    /\ pc' = "Sleep"
    /\ UNCHANGED isolatedVars
    /\ UNCHANGED <<configFile, certFile, validTokens, credentials, loaded,
                   reading, fetched, gateway, polls, exitCode, message>>

\* YAPI.Sleep(5000, errmsg)
Sleep ==
    /\ pc = "Sleep"
    /\ Log(Event("Sleep", "5000", ""))
    /\ pc' = "isOnline"
    /\ UNCHANGED isolatedVars
    /\ UNCHANGED <<configFile, certFile, validTokens, credentials, loaded,
                   layer, reading, fetched, gateway, polls, exitCode, message>>

\* ------------------------------------------------------------ specification

Tokens == {"tokA", "tokB"}

\* The records config.json may hold when the program starts.
ConfigDicts ==
    [gateway_host : {None, "envoy.local"},
     gateway_serial_number : {None, "", "122000000000"},
     enphase_username : {None, "", "user"},
     enphase_password : {None, "secret"},
     gateway_token : {None, ""} \cup Tokens,
     yoctopuce_url : {"usb"}]

EmptyDocument == [production |-> <<>>, consumption |-> <<>>]
NoStats == [returned |-> FALSE, production |-> 0, consumption |-> 0]

\* The isolated checks of format_watts and get_solar_stats at rest.
IsolatedIdle ==
    /\ watts = 0
    /\ text = <<>>
    /\ document = EmptyDocument
    /\ stats = NoStats

\* main() not started.
MainIdle ==
    /\ pc = "main"
    /\ credentials = NoDict
    /\ loaded = NoDict
    /\ trace = <<>>
    /\ layer = <<>>
    /\ reading = NoReading
    /\ fetched = EmptyDocument
    /\ gateway = NoGateway
    /\ polls = 0
    /\ exitCode = NoExit
    /\ message = MsgNone

Init ==
    /\ MainIdle
    /\ configFile \in {NoFile} \cup {File(json_dump(dict)) : dict \in ConfigDicts}
    /\ certFile \in BOOLEAN
    /\ validTokens \in SUBSET Tokens
    /\ IsolatedIdle

Next ==
    \/ LoadConfig
    \/ RegisterHub
    \/ FirstDisplay
    \/ ResetDisplay
    \/ CheckToken
    \/ HaveToken
    \/ Authenticate
    \/ GetToken
    \/ WriteConfig
    \/ TrustGateway
    \/ Login
    \/ IsOnline
    \/ FetchFails
    \/ Fetch
    \/ Clear
    \/ DrawLarge
    \/ DrawMedium
    \/ Sleep

Spec == Init /\ [][Next]_vars

\* ------------------------------------------------- format_watts in isolation

\* Arguments beyond FmtMax: other binary exponents of the quotient, exact
\* and inexact ties of the one-decimal rendering, both signs.
FmtSamples == {123450, 123454, -15000, 40500, -40500, 81500, 162500, -162500,
               204500, 999950, 999949, -999950, 1000004}

FmtInputs == (-FmtMax .. FmtMax) \cup FmtSamples

InitFmt ==
    /\ MainIdle
    /\ configFile = NoFile
    /\ certFile = FALSE
    /\ validTokens = {}
    /\ watts \in FmtInputs
    /\ text = <<>>
    /\ document = EmptyDocument
    /\ stats = NoStats

\* text = format_watts(watts)
Format ==
    /\ text = <<>>
    /\ text' = format_watts(watts)
    /\ UNCHANGED <<watts, document, stats>>
    /\ UNCHANGED mainVars

NextFmt == Format

SpecFmt == InitFmt /\ [][NextFmt]_vars

\* ---------------------------------------------- get_solar_stats in isolation

StatsDevices ==
    [type : {"inverters", "eim"},
     measurementType : {"production", "net-consumption", "total-consumption"},
     wNow : {1500, 27004}]

DeviceLists(n) == UNION {[1..k -> StatsDevices] : k \in 0..n}

InitStats ==
    /\ MainIdle
    /\ configFile = NoFile
    /\ certFile = FALSE
    /\ validTokens = {}
    /\ watts = 0
    /\ text = <<>>
    /\ \E production \in DeviceLists(MaxDevices) :
          \E consumption \in DeviceLists(MaxDevices - Len(production)) :
             document = [production |-> production, consumption |-> consumption]
    /\ stats = NoStats

\* stats = get_solar_stats(gateway), the gateway answering with document
Extract ==
    /\ ~stats.returned
    /\ LET got == get_solar_stats(document)
       IN  stats' = [returned |-> TRUE, production |-> got.production,
                     consumption |-> got.consumption]
    /\ UNCHANGED <<watts, text, document>>
    /\ UNCHANGED mainVars

NextStats == Extract

SpecStats == InitStats /\ [][NextStats]_vars

\* ===================================================================== claims

Calls(ops) == {i \in 1..Len(trace) : trace[i].op \in ops}

IssuanceOps == {"get_token_for_commissioned_gateway",
                "get_token_for_uncommissioned_gateway"}

IssuanceCalls == Calls(IssuanceOps)

\* The token the issuance call of this run returned.
IssuedToken == trace[CHOOSE i \in IssuanceCalls : TRUE].res

ConfigLoaded == loaded # NoDict

\* The cached token is present and the Token Validator accepts it.
CachedAccepted ==
    /\ ConfigLoaded
    /\ Truthy(loaded.gateway_token)
    /\ loaded.gateway_token \in validTokens

\* get_secure_gateway_session returned a Gateway.
Established == gateway # NoGateway

\* The positions of main() up to the decision whether a token is needed.
BeforeDecision == {"main", "RegisterHub", "FirstDisplay", "resetAll",
                   "check_token", "have_token"}

\* get_secure_gateway_session was called (main() calls it right after the
\* display reset) and has passed its two token tests.
Decided == Calls({"resetAll"}) # {} /\ pc \notin BeforeDecision

ConfigFileAsLoaded == configFile.exists /\ json_load(configFile.content) = loaded

\* C1: with a cached token that is present and accepted by the Token
\* Validator, session establishment makes no cloud authentication call and
\* no token issuance call, and does not write the credential file.
C1_ValidCachedTokenNoCloudNoWrite ==
    CachedAccepted =>
        /\ Calls({"authenticate"} \cup IssuanceOps \cup {"write"}) = {}
        /\ ConfigFileAsLoaded
        /\ credentials.gateway_token = loaded.gateway_token

\* C1 witness: an establishment that finished on the accepted cached token.
C1_Witness ==
    /\ CachedAccepted
    /\ Established
    /\ Calls({"check_token_valid"}) # {}
    /\ CanAuthenticate(loaded)

\* C2: when the cached token is absent or rejected and username or password
\* is missing, establishment fails with the ValueError (the AuthError), the
\* credential file still holds its prior content, no certificate is fetched
\* and no gateway login is attempted.
C2_MissingCredentialsFailNoWrites ==
    (Decided /\ ~CachedAccepted /\ ~(Truthy(loaded.enphase_username)
                                      /\ Truthy(loaded.enphase_password))) =>
        /\ pc = "exited"
        /\ message = MsgAuthError
        /\ exitCode = 1
        /\ ~Established
        /\ Calls({"authenticate", "write", "trust_gateway", "login"}
                 \cup IssuanceOps) = {}
        /\ ConfigFileAsLoaded

\* C2 witness: a rejected cached token, a username without password, no
\* certificate on disk, and the establishment over.
C2_Witness ==
    /\ Decided
    /\ Truthy(loaded.gateway_token)
    /\ loaded.gateway_token \notin validTokens
    /\ Truthy(loaded.enphase_username)
    /\ ~Truthy(loaded.enphase_password)
    /\ ~certFile
    /\ pc = "exited"

\* C3 as stated: after every successful return of get_secure_gateway_session
\* the record's gateway_token is present (non-empty) and valid.
C3_TokenPresentAndValid ==
    Established =>
        /\ Truthy(credentials.gateway_token)
        /\ credentials.gateway_token \in validTokens

\* C3 amended: after every successful return the record's gateway_token is
\* the token the gateway login accepted; it is the cached token when the
\* Token Validator accepted that one (and then present and valid), and
\* otherwise whatever the one issuance call of the run returned.
C3_TokenIsTheAcceptedOne ==
    Established =>
        /\ credentials.gateway_token = gateway.token
        /\ \E i \in Calls({"login"}) :
              trace[i].arg = credentials.gateway_token /\ trace[i].res = "True"
        /\ IF CachedAccepted
           THEN /\ credentials.gateway_token = loaded.gateway_token
                /\ Truthy(credentials.gateway_token)
                /\ credentials.gateway_token \in validTokens
                /\ IssuanceCalls = {}
           ELSE /\ Cardinality(IssuanceCalls) = 1
                /\ credentials.gateway_token = IssuedToken

\* C3 witness: a successful return on an issued token the validator would
\* not accept.
C3_Witness ==
    /\ Established
    /\ IssuanceCalls # {}
    /\ credentials.gateway_token \notin validTokens

\* C4: the credential file is written exactly when a token was issued (one
\* write after the one issuance call, none otherwise), and the write stores
\* the whole record: the issued token, every other field as loaded.
C4_FileRewrittenExactlyOnIssuance ==
    /\ Cardinality(IssuanceCalls) <= 1
    /\ Cardinality(Calls({"write"})) =
           IF pc = "write_config" THEN 0 ELSE Cardinality(IssuanceCalls)
    /\ \A i \in Calls({"write"}) : i > 1 /\ (i - 1) \in IssuanceCalls
    /\ Calls({"write"}) # {} =>
           /\ configFile.exists
           /\ json_load(configFile.content) =
                  [loaded EXCEPT !.gateway_token = IssuedToken]
    /\ (ConfigLoaded /\ Calls({"write"}) = {}) => ConfigFileAsLoaded

\* C4 witness: the file rewritten with a token that differs from the cached
\* one, the record holding a host, a serial number and a username.
C4_Witness ==
    /\ Calls({"write"}) # {}
    /\ IssuedToken # loaded.gateway_token
    /\ Truthy(IssuedToken)
    /\ Truthy(loaded.gateway_token)
    /\ Truthy(loaded.gateway_host)
    /\ Truthy(loaded.gateway_serial_number)

\* The indices of the entries of type "inverters", and of the entries of type
\* "eim" that measure a consumption.
Inverters(devices) == {i \in 1..Len(devices) : devices[i].type = "inverters"}

ConsumptionMeters(devices) ==
    {i \in 1..Len(devices) :
        /\ devices[i].type = "eim"
        /\ devices[i].measurementType \in {"net-consumption", "total-consumption"}}

Least(S) == CHOOSE i \in S : \A j \in S : i <= j

\* C5: production is the wNow of the first entry, in document order, of type
\* "inverters", whatever follows it, and 0 when there is no such entry.
C5_ProductionIsFirstInverters ==
    stats.returned =>
        LET M == Inverters(document.production)
        IN  stats.production =
               IF M = {} THEN 0 ELSE document.production[Least(M)].wNow

\* C5 witness: two "inverters" entries with different wNow behind another
\* entry, and the extraction done.
C5_Witness ==
    /\ stats.returned
    /\ Len(document.production) = 3
    /\ Inverters(document.production) = {2, 3}
    /\ document.production[2].wNow # document.production[3].wNow

\* C6: consumption is the wNow of the first entry, in document order, whose
\* type is "eim" and whose measurementType is "net-consumption" or
\* "total-consumption"; entries with only one of the two are skipped; 0 when
\* no entry qualifies.
C6_ConsumptionIsFirstQualifyingEim ==
    stats.returned =>
        LET M == ConsumptionMeters(document.consumption)
        IN  stats.consumption =
               IF M = {} THEN 0 ELSE document.consumption[Least(M)].wNow

\* C6 witness: an "eim" entry that measures production, then an "inverters"
\* entry labelled net-consumption, then the qualifying entry with another
\* wNow, and the extraction done.
C6_Witness ==
    /\ stats.returned
    /\ Len(document.consumption) = 3
    /\ document.consumption[1].type = "eim"
    /\ document.consumption[1].measurementType = "production"
    /\ document.consumption[2].type = "inverters"
    /\ document.consumption[2].measurementType = "net-consumption"
    /\ ConsumptionMeters(document.consumption) = {3}
    /\ document.consumption[3].wNow # document.consumption[1].wNow

\* Reading a rendered string back.
DigitChars == {"0", "1", "2", "3", "4", "5", "6", "7", "8", "9"}

DigitValue(c) == CASE c = "0" -> 0 [] c = "1" -> 1 [] c = "2" -> 2 [] c = "3" -> 3
                   [] c = "4" -> 4 [] c = "5" -> 5 [] c = "6" -> 6 [] c = "7" -> 7
                   [] c = "8" -> 8 [] c = "9" -> 9

RECURSIVE CharsToNat(_)
CharsToNat(chars) ==
    IF Len(chars) = 0 THEN 0
    ELSE 10 * CharsToNat(SubSeq(chars, 1, Len(chars) - 1))
         + DigitValue(chars[Len(chars)])

AllDigits(chars) == Len(chars) > 0 /\ \A i \in 1..Len(chars) : chars[i] \in DigitChars

\* chars without its leading "-", if it has one.
Unsigned(chars) == IF Len(chars) > 0 /\ chars[1] = "-" THEN Tail(chars) ELSE chars

EndsInW(chars) ==
    /\ Len(chars) > 2
    /\ chars[Len(chars) - 1] = " "
    /\ chars[Len(chars)] = "W"

Body(chars) == SubSeq(chars, 1, Len(chars) - 2)

Dots(chars) == {i \in 1..Len(chars) : chars[i] = "."}

\* The whole watt nearest to w10 tenths, a tie going to the even neighbour.
NearestWatt(w10) ==
    CHOOSE n \in (w10 \div 10)..(w10 \div 10 + 1) :
        /\ Abs(10 * n - w10) <= 5
        /\ Abs(10 * n - w10) = 5 => n % 2 = 0

\* C7: format_watts rounds to the nearest whole watt and then chooses the
\* branch: below 1000 in absolute value the text is that signed integer and
\* " W", without decimal point; from 1000 on it is the rounded value divided
\* by 1000 with exactly one fractional digit and " W".  999.4 gives "999 W"
\* and 999.6 gives "1.0 W".
C7_RoundThenBranch ==
    text # <<>> =>
        LET n == NearestWatt(watts)
            body == Body(text)
            digits == Unsigned(body)
        IN  /\ EndsInW(text)
            /\ (body[1] = "-") <=> (n < 0)
            /\ IF Abs(n) < 1000
               THEN /\ Dots(text) = {}
                    /\ AllDigits(digits)
                    /\ CharsToNat(digits) = Abs(n)
                    /\ Len(digits) > 1 => digits[1] # "0"
               ELSE /\ Dots(digits) = {Len(digits) - 1}
                    /\ AllDigits(SubSeq(digits, 1, Len(digits) - 2))
                    /\ AllDigits(SubSeq(digits, Len(digits), Len(digits)))
                    /\ LET shown == 10 * CharsToNat(SubSeq(digits, 1, Len(digits) - 2))
                                    + DigitValue(digits[Len(digits)])
                       IN  Abs(100 * shown - Abs(n)) <= 50
            /\ watts = 9994 => text = <<"9", "9", "9", " ", "W">>
            /\ watts = 9996 => text = <<"1", ".", "0", " ", "W">>
            /\ watts = 0 - 15000 => text = <<"-", "1", ".", "5", " ", "W">>
            /\ watts = 123450 => text = <<"1", "2", ".", "3", " ", "W">>

\* C7 witness: 999.6 W formatted.
C7_Witness == watts = 9996 /\ text # <<>>

\* C8: once isOnline() has returned false nothing more is done (no fetch,
\* clear, drawText or sleep, no further online check) and the process has
\* ended, with status 0.
C8_OfflineStopsForGood ==
    \A i \in Calls({"isOnline"}) :
        trace[i].res = "False" =>
            /\ i = Len(trace)
            /\ pc = "exited"
            /\ exitCode = 0

\* C8 witness: the display reported not-online after two iterations.
C8_Witness ==
    /\ polls = 2
    /\ Cardinality(Calls({"Sleep"})) = 2
    /\ Len(trace) > 0
    /\ trace[Len(trace)].op = "isOnline"
    /\ trace[Len(trace)].res = "False"

SessionOps == {"check_token_valid", "authenticate", "write", "trust_gateway",
               "login"} \cup IssuanceOps

\* The process ended with status 1 before any session establishment step
\* and any telemetry fetch.
StartupFailure ==
    /\ pc = "exited"
    /\ exitCode = 1
    /\ Calls(SessionOps \cup {"api_call", "isOnline"}) = {}
    /\ ~Established
    /\ credentials = loaded

\* C9: a missing config file, a hub that cannot be registered and a missing
\* display each end the process with status 1 before any session
\* establishment step and any telemetry fetch; a run the offline display
\* ended exits with status 0.
C9_ExitCodes ==
    /\ (~configFile.exists /\ pc # "main") =>
           StartupFailure /\ message = MsgNoConfig /\ trace = <<>>
    /\ (\E i \in Calls({"RegisterHub"}) : trace[i].res = "error") =>
           StartupFailure /\ message = MsgNoHub /\ ConfigFileAsLoaded
    /\ (\E i \in Calls({"FirstDisplay"}) : trace[i].res = "None") =>
           StartupFailure /\ message = MsgNoDisplay /\ ConfigFileAsLoaded
    /\ (pc = "exited" /\ Len(trace) > 0 /\ trace[Len(trace)].op = "isOnline") =>
           exitCode = 0

\* C9 witness: the run that found no display, on a loaded config with
\* credentials and a token the validator would accept.
C9_Witness ==
    /\ pc = "exited"
    /\ message = MsgNoDisplay
    /\ CachedAccepted
    /\ CanAuthenticate(loaded)

PollOps == {"isOnline", "api_call", "drawText", "Sleep"}

\* C10: a failed telemetry fetch is the last thing a run does (nothing
\* catches it: no retry, no further fetch, clear, drawText or sleep), and
\* without an established session the poll loop is never entered.
C10_ErrorsAreTerminal ==
    /\ \A i \in Calls({"api_call"}) :
           trace[i].res = "error" =>
               /\ i = Len(trace)
               /\ pc = "exited"
               /\ exitCode # 0
    /\ ~Established => Calls(PollOps) = {} /\ polls = 0
    /\ message = MsgAuthError => ~Established /\ pc = "exited"

\* C10 witness: the fetch of the second iteration failed, the first having
\* drawn its two texts.
C10_Witness ==
    /\ polls = 2
    /\ Len(layer) = 2
    /\ Len(trace) > 0
    /\ trace[Len(trace)].op = "api_call"
    /\ trace[Len(trace)].res = "error"

\* The collaborator calls of session establishment, one name per step.
EstablishmentSteps == {{"check_token_valid"}, {"authenticate"}, IssuanceOps,
                       {"trust_gateway"}, {"login"}}

\* C11: session establishment never retries: each of its collaborator calls
\* (the validator, the cloud authentication, the token issuance, the
\* certificate fetch, the gateway login) is made at most once in a run, and
\* a step that fails (a refused authentication, a rejected login, missing
\* credentials) is the last step of the establishment.
C11_NoRetries ==
    /\ \A ops \in EstablishmentSteps : Cardinality(Calls(ops)) <= 1
    /\ \A i \in Calls({"authenticate", "login"}) :
           trace[i].res = "False" =>
               /\ i = Len(trace)
               /\ pc = "exited"
               /\ message = MsgAuthError
               /\ ~Established
    /\ message = MsgAuthError =>
           /\ pc = "exited"
           /\ ~Established
           /\ Calls(PollOps) = {}

\* C11 witness: the gateway rejected the login of a run that had called the
\* validator, the cloud authentication, the issuance and the certificate
\* fetch once each.
C11_Witness ==
    /\ \A ops \in EstablishmentSteps : Cardinality(Calls(ops)) = 1
    /\ trace[Len(trace)].op = "login"
    /\ trace[Len(trace)].res = "False"

\* C12: when the cloud authentication is attempted and reports failure, the
\* establishment fails with the ValueError (the AuthError): no token
\* issuance, no write of the credential file, no certificate fetch and no
\* gateway login happen in that run.
C12_RefusedAuthenticationAborts ==
    (\E i \in Calls({"authenticate"}) : trace[i].res = "False") =>
        /\ pc = "exited"
        /\ message = MsgAuthError
        /\ exitCode = 1
        /\ ~Established
        /\ Calls(IssuanceOps \cup {"write", "trust_gateway", "login"}) = {}
        /\ ConfigFileAsLoaded
        /\ credentials.gateway_token = None

\* C12 witness: the authentication refused after the validator rejected the
\* cached token, with no certificate on disk.
C12_Witness ==
    /\ Len(trace) > 0
    /\ trace[Len(trace)].op = "authenticate"
    /\ trace[Len(trace)].res = "False"
    /\ Calls({"check_token_valid"}) # {}
    /\ ~certFile

\* C13: a newly issued token comes from exactly one issuance call, whose
\* kind the serial number decides: the serial-scoped request (with that
\* serial number) exactly when a non-empty gateway serial number is
\* configured, the uncommissioned-gateway request otherwise.
C13_IssuanceKindFollowsSerial ==
    /\ Cardinality(IssuanceCalls) <= 1
    /\ (pc = "write_config" \/ Calls({"write"}) # {}) =>
           Cardinality(IssuanceCalls) = 1
    /\ \A i \in IssuanceCalls :
           /\ (trace[i].op = "get_token_for_commissioned_gateway")
                  <=> (loaded.gateway_serial_number \notin {None, ""})
           /\ (trace[i].op = "get_token_for_uncommissioned_gateway")
                  <=> (loaded.gateway_serial_number \in {None, ""})
           /\ trace[i].op = "get_token_for_commissioned_gateway" =>
                  trace[i].arg = loaded.gateway_serial_number
           /\ credentials.gateway_token = trace[i].res

\* C13 witness: the uncommissioned request made for an empty serial number,
\* and its token written.
C13_Witness ==
    /\ Calls({"get_token_for_uncommissioned_gateway"}) # {}
    /\ loaded.gateway_serial_number = ""
    /\ Calls({"write"}) # {}

\* The step appends a trust_gateway call to the trace.
CallsTrustGateway ==
    \E i \in (Len(trace) + 1)..Len(trace') : trace'[i].op = "trust_gateway"

\* The step appends a gateway login to the trace.
CallsLogin ==
    \E i \in (Len(trace) + 1)..Len(trace') : trace'[i].op = "login"

\* C14: trust_gateway is called exactly when the establishment reaches the
\* certificate step and gateway.cer does not exist; an existing certificate
\* file is never fetched again, overwritten or removed; and a gateway login
\* is only attempted with a certificate file in place.
C14_TrustAnchorByExistenceOnly ==
    /\ [][ /\ CallsTrustGateway <=> (pc = "trust" /\ ~certFile)
           /\ certFile => (certFile' /\ ~CallsTrustGateway)
           /\ certFile' # certFile => CallsTrustGateway
           /\ CallsLogin => certFile ]_vars
    /\ [](Cardinality(Calls({"trust_gateway"})) <= 1)
    /\ []((pc = "login" \/ Calls({"login"}) # {}) => certFile)

\* C14 witness: a login attempted in a run that found gateway.cer missing
\* and fetched it.
C14_Witness ==
    /\ Calls({"trust_gateway"}) # {}
    /\ Calls({"login"}) # {}
    /\ certFile

\* The index of the successful gateway login, after which the loop starts.
LoginIndex == CHOOSE i \in Calls({"login"}) : trace[i].res = "True"

\* The call an iteration makes in its n-th place, n counted from 0.
IterationStep(n) ==
    CASE n = 0 -> [op |-> "isOnline", arg |-> ""]
      [] n = 1 -> [op |-> "api_call", arg |-> "/production.json"]
      [] n = 2 -> [op |-> "clear", arg |-> ""]
      [] n = 3 -> [op |-> "drawText", arg |-> "Large.yfm"]
      [] n = 4 -> [op |-> "drawText", arg |-> "Medium.yfm"]
      [] n = 5 -> [op |-> "Sleep", arg |-> "5000"]

Fonts(texts) == [i \in 1..Len(texts) |-> texts[i].font]

\* C15: every poll iteration makes its calls in one fixed order, one of
\* each: the online check, one telemetry fetch, one clear of the layer, the
\* draw in the large font, the draw (parenthesised) in the medium font, one
\* sleep of 5 seconds; the layer is cleared only after the fetch of the
\* iteration returned, and isOnline is asked only between iterations.
C15_IterationOrder ==
    Established =>
        /\ \A j \in (LoginIndex + 1)..Len(trace) :
               LET n == (j - LoginIndex - 1) % 6
               IN  /\ trace[j].op = IterationStep(n).op
                   /\ trace[j].arg = IterationStep(n).arg
                   /\ j < Len(trace) =>
                          /\ n = 0 => trace[j].res = "True"
                          /\ n = 1 => trace[j].res = "ok"
        /\ Cardinality(Calls({"api_call"})) =
               IF pc = "api_call" THEN polls - 1 ELSE polls
        /\ pc = "clear" => trace[Len(trace)].op = "api_call"
        /\ pc = "drawLarge" => layer = <<>>
        /\ pc = "drawMedium" => Fonts(layer) = <<"Large.yfm">>
        /\ pc = "Sleep" =>
               /\ Fonts(layer) = <<"Large.yfm", "Medium.yfm">>
               /\ layer[2].text[1] = "("
               /\ layer[2].text[Len(layer[2].text)] = ")"

\* C15 witness: two whole iterations done.
C15_Witness ==
    /\ Established
    /\ polls = 2
    /\ Len(trace) = LoginIndex + 12
    /\ pc = "isOnline"

\* Production and consumption of the fetched document, by definition: the
\* wNow of the first qualifying entry, 0 without one.
FetchedProduction ==
    LET M == Inverters(fetched.production)
    IN  IF M = {} THEN 0 ELSE fetched.production[Least(M)].wNow

FetchedConsumption ==
    LET M == ConsumptionMeters(fetched.consumption)
    IN  IF M = {} THEN 0 ELSE fetched.consumption[Least(M)].wNow

\* C16: what an iteration draws derives from the reading fetched in that
\* iteration alone: the large text is format_watts(production - consumption)
\* and the medium text "(" + format_watts(production) + ")" of the document
\* the last api_call returned; a reading of an earlier iteration is never
\* drawn.  (Between the fetch and the clear the layer still shows the texts
\* of the iteration before.)
C16_DrawnFromThisIterationsReading ==
    /\ (\E i \in Calls({"api_call"}) : trace[i].res = "ok") =>
           /\ reading.production = FetchedProduction
           /\ reading.consumption = FetchedConsumption
           /\ reading.avail = FetchedProduction - FetchedConsumption
    /\ (pc # "clear" /\ Len(layer) >= 1) =>
           /\ layer[1].font = "Large.yfm"
           /\ layer[1].text = format_watts(FetchedProduction - FetchedConsumption)
    /\ (pc # "clear" /\ Len(layer) = 2) =>
           /\ layer[2].font = "Medium.yfm"
           /\ layer[2].text = <<"(">> \o format_watts(FetchedProduction) \o <<")">>
    /\ Len(layer) <= 2

\* C16 witness: the second iteration has drawn both texts, from a document
\* with a consumption and a production.
C16_Witness ==
    /\ polls = 2
    /\ pc = "Sleep"
    /\ Len(layer) = 2
    /\ FetchedConsumption # 0
    /\ FetchedProduction # 0

\* The gateway rejected the login of this run.
LoginRejected == \E i \in Calls({"login"}) : trace[i].res = "False"

\* config.json holds the record as loaded but for the issued token.
ConfigFileHoldsIssued ==
    /\ configFile.exists
    /\ json_load(configFile.content) =
           [loaded EXCEPT !.gateway_token = IssuedToken]

\* C17: a newly issued token is persisted before the gateway login and the
\* write is never undone: the write of config.json precedes the login, from
\* the login on the file holds the issued token, and when the gateway
\* rejects the login (AuthError) the file holds the issued token if one was
\* issued, and is as it was loaded if the token was the validated cached one.
C17_PersistedBeforeLoginNoRollback ==
    /\ \A i \in Calls({"login"}) : \A w \in Calls({"write"}) : w < i
    /\ ((pc = "login" \/ Calls({"login"}) # {}) /\ IssuanceCalls # {}) =>
           /\ Calls({"write"}) # {}
           /\ ConfigFileHoldsIssued
    /\ LoginRejected =>
           /\ pc = "exited"
           /\ message = MsgAuthError
           /\ IF IssuanceCalls # {}
              THEN ConfigFileHoldsIssued
              ELSE CachedAccepted /\ ConfigFileAsLoaded

\* C17 witness: the gateway rejected a newly issued token that differs from
\* the cached one.
C17_Witness ==
    /\ LoginRejected
    /\ IssuanceCalls # {}
    /\ Truthy(IssuedToken)
    /\ Truthy(loaded.gateway_token)
    /\ IssuedToken # loaded.gateway_token

\* The Token Validator rejected the cached token.
CachedRejected ==
    \E i \in Calls({"check_token_valid"}) : trace[i].res = "False"

====
